---- MODULE Spec2Model ----
(***************************************************************************)
(* groundhog: rolling (wraparound) tick timers.                            *)
(*                                                                         *)
(*   Spec      the nrf52 hardware adapter, GlobalRollingTimer              *)
(*             (drivers/groundhog-nrf52/src/lib.rs): the global binding    *)
(*             TIMER_PTR, the timer peripherals, and the calling contexts  *)
(*             (thread mode and interrupt handlers) stepping through init, *)
(*             get_ticks, is_initialized, reset, now, the delays and the   *)
(*             scheduler hooks, one shared-memory access per step.         *)
(*                                                                         *)
(*   SpecDelay the same adapter with one context running the busy-wait     *)
(*             delays delay_us and delay_ms against the free-running timer.*)
(*             SpecDelayFair adds fair scheduling of the counter and of    *)
(*             the polling loop.                                           *)
(*   SpecRace  get_ticks in two contexts with init and reset, the ticks    *)
(*             each call returns followed as history.                      *)
(*   SpecFrame either adapter, every call that reads a timer or waits.     *)
(*   SpecStd   the software adapter, Timer<TPS> (core/src/std_timer.rs):   *)
(*             the lazily initialised reference instant T0, the host's     *)
(*             monotonic clock, and threads calling get_ticks and          *)
(*             millis_since.                                               *)
(*   SpecArith the RollingTimer arithmetic (ticks_since, millis_since) as  *)
(*             pure functions of drawn inputs.                             *)
(*                                                                         *)
(* Tick values are u32 in the source.  TLC's integers are 32 bits wide, so *)
(* the counter width is scaled down: HwTickMod stands for 2^32 in the      *)
(* hardware adapter, StdTickMod for 2^32 in the software adapter (the      *)
(* largest power of two t for which t * 1000 is still a TLC integer).      *)
(***************************************************************************)
EXTENDS Integers, FiniteSets, Sequences, TLC

\* ------------------------------------------------------------------ bounds

\* The hardware counter's modulus (2^32 in the source: Tick = u32).
HwTickMod == 4
\* Timer peripherals that can be handed to init (TIMER0, TIMER1).
Timers == {1, 2}
\* Calling contexts: thread mode (1) and an interrupt handler (2).
Procs == {1, 2}
\* The null pointer of TIMER_PTR.
null_mut == 0
\* The microseconds of one millisecond, the argument delay_ms gives delay_us
\* (1000 in the source, scaled with the counter width).
UsPerMs == 2
\* The largest argument tried for delay_ms.
MaxMs == 2
\* Arguments tried for delay_us.
DelayArgs == {0, 1, HwTickMod - 1}
\* The elapsed ticks of a wait are counted up to this many, and its polls
\* up to MaxPolls.
MaxWaited ==
    IF MaxMs * UsPerMs > HwTickMod THEN MaxMs * UsPerMs ELSE HwTickMod
MaxPolls == 2

\* The software counter's modulus (2^32 in the source: the mask 0xFFFF_FFFF).
StdTickMod == 2097152
\* The clock is advanced at most this often, and never past MaxClock.
MaxAdvances == 2
MaxClock == 2100000000
\* Threads using the software adapter: the test thread (1) and a racer (2).
Threads == {1, 2}
\* The rates TPS of the Timer<TPS> instances constructed.
Rates == {330, 1000, 1000000, 1000000000, 2000000000}

\* ------------------------------------------------- RollingTimer arithmetic

\* A subtraction that stops at 0 instead of wrapping.
saturating_sub(m, a, b) == IF a >= b THEN a - b ELSE 0

\* Tick::wrapping_sub at a tick type of modulus m, by cases as the machine
\* computes it: the plain difference, or the difference with the borrow.
wrapping_sub(m, a, b) == IF a >= b THEN a - b ELSE m - (b - a)

\* RollingTimer::ticks_since(rhs) at a read get_ticks() = ticks.
ticks_since(m, ticks, rhs) == wrapping_sub(m, ticks, rhs)

\* The milliseconds of one second.
MillisPerSec == 1000

\* The product and quotient of millis_since, in integer arithmetic wide
\* enough for the product: delta * 1000 / rate, truncating.
mul_div(delta, mul, div) == (delta * mul) \div div

\* millis_since with the product taken at the tick width.
millis_since_narrow(m, ticks, rhs, rate) ==
    ((ticks_since(m, ticks, rhs) * MillisPerSec) % m) \div rate

\* RollingTimer::millis_since(rhs) at a read get_ticks() = ticks.
millis_since(m, ticks, rhs, rate) ==
    mul_div(ticks_since(m, ticks, rhs), MillisPerSec, rate)

\* ---------------------------------------------------------------- state

VARIABLES
    TIMER_PTR,          \* the published binding: null_mut or a timer
    debug_assertions,   \* the build: debug_assert! is compiled in or out
    avail,              \* peripherals not yet moved into an init call
    periodic,           \* per timer: the compare-clear short is set
    running,            \* per timer: started
    counter,            \* per timer: the live count
    cc1,                \* per timer: capture register cc[1]
    published,          \* history: some init has executed its swap
    cx,                 \* per context: the call in progress and its locals
    hist,               \* history: whether returned ticks are followed, and
                        \* per timer the largest tick a get_ticks() has
                        \* returned since its counter last wrapped or was
                        \* cleared
    T0,                 \* the software adapter's Lazy<Instant>; inits is
                        \* history: how often its closure has run
    clock,              \* the host's monotonic clock, in nanoseconds
    advances,           \* how often the clock has been advanced
    sx,                 \* per thread: its Timer<TPS> and the call in progress
    ar                  \* the arithmetic's inputs and results

stdVars == <<T0, clock, advances, sx>>
arVars == <<ar>>
hwVars == <<TIMER_PTR, debug_assertions, avail, periodic, running, counter,
            cc1, published, cx, hist>>

\* Option::None, and the absence of a value in a history field.
None == -1

\* A context between calls.  pub, cap, raced and how are history: whether
\* the binding was published when the call began; between a get_ticks()'s
\* capture and its read, the count its own capture latched and whether
\* another context's capture came in between; and how the last get_ticks()
\* came by its value: "null" (no binding, the constant 0), "own" (the count
\* its own capture latched), "raced" (another context's later capture) or
\* "lost" (neither).  arg, waited and polls are history of a delay: the
\* argument of the call, the ticks the counter has made since the capture of
\* the call's first start, and the polls of the current delay_us.  floor,
\* during and spoiled are history of a get_ticks() whose ticks are followed:
\* the largest tick returned from its timer before the call began, the
\* counts its timer has held since the call began, and whether the counter
\* wrapped or was cleared meanwhile.  A call that has returned keeps of
\* during the tick it returned, if that was in it, and its floor if the
\* counter neither wrapped nor was cleared.
Idle ==
    [op |-> "none", pc |-> "idle", site |-> "none", t0 |-> null_mut,
     ret |-> 0, flag |-> FALSE, start |-> 0, us |-> 0, elapsed |-> 0,
     polled |-> FALSE, ms |-> 0, old_ptr |-> null_mut,
     pub |-> FALSE, cap |-> None, raced |-> FALSE, how |-> "none",
     arg |-> 0, waited |-> None, polls |-> 0,
     floor |-> None, during |-> {}, spoiled |-> FALSE]

HwStart(follow) ==
    /\ TIMER_PTR = null_mut
    /\ debug_assertions \in BOOLEAN
    /\ avail = Timers
    /\ periodic = [t \in Timers |-> FALSE]
    /\ running = [t \in Timers |-> FALSE]
    /\ counter = [t \in Timers |-> 0]
    /\ cc1 = [t \in Timers |-> 0]
    /\ published = FALSE
    /\ cx = [p \in Procs |-> Idle]
    /\ hist = [on |-> follow, last |-> [t \in Timers |-> None]]

HwInit == HwStart(FALSE)

Put(p, r) == cx' = [cx EXCEPT ![p] = r]

\* ------------------------------------------------- the timer peripheral

\* A get_ticks() is between its load of a timer and its return.
InCall(c) == c.pc \in {"capture", "read"}

\* History: the counter of the timer of the call c now holds v; broke says
\* that it wrapped or was cleared to get there.
Moved(c, v, broke) ==
    IF hist.on
    THEN [c EXCEPT !.during = @ \cup {v}, !.spoiled = @ \/ broke]
    ELSE c

\* History: the ticks returned from the timers in ts are forgotten.
Forget(ts) ==
    IF hist.on
    THEN [hist EXCEPT !.last = [t \in Timers |->
                                  IF t \in ts THEN None ELSE hist.last[t]]]
    ELSE hist

\* The 1 MHz clock ticks: every started timer counts, wrapping at the width.
Tick ==
    /\ \E t \in Timers : running[t]
    /\ counter' = [t \in Timers |->
                     IF running[t] THEN (counter[t] + 1) % HwTickMod
                     ELSE counter[t]]
    /\ cx' = [p \in Procs |->
                LET c == IF cx[p].pc # "idle" /\ cx[p].waited # None
                            /\ cx[p].waited < MaxWaited
                         THEN [cx[p] EXCEPT !.waited = @ + 1]
                         ELSE cx[p]
                IN  IF InCall(c)
                    THEN Moved(c, (counter[c.t0] + 1) % HwTickMod,
                               counter[c.t0] = HwTickMod - 1)
                    ELSE c]
    /\ hist' = Forget({t \in Timers :
                         running[t] /\ counter[t] = HwTickMod - 1})
    /\ UNCHANGED <<TIMER_PTR, debug_assertions, avail, periodic, running,
                   cc1, published,
                   stdVars, arVars>>

\* ---------------------------------------------- GlobalRollingTimer::init

\* An init that goes straight to storing the handle.
init_publish_first(p) ==
    /\ cx[p].pc = "idle"
    /\ \E t \in avail :
         /\ avail' = avail \ {t}
         /\ Put(p, [Idle EXCEPT !.op = "init", !.pc = "swap",
                                !.t0 = t, !.pub = published])
    /\ UNCHANGED <<TIMER_PTR, debug_assertions, periodic, running, counter,
                   cc1, published,
                   hist, stdVars, arVars>>

\* init(timer): the peripheral is moved into the call.
init(p) ==
    /\ cx[p].pc = "idle"
    /\ \E t \in avail :
         /\ avail' = avail \ {t}
         /\ Put(p, [Idle EXCEPT !.op = "init", !.pc = "set_periodic",
                                !.t0 = t, !.pub = published])
    /\ UNCHANGED <<TIMER_PTR, debug_assertions, periodic, running, counter,
                   cc1, published,
                   hist, stdVars, arVars>>

\* timer.set_periodic()
init_set_periodic(p) ==
    /\ cx[p].pc = "set_periodic"
    /\ periodic' = [periodic EXCEPT ![cx[p].t0] = TRUE]
    /\ Put(p, [cx[p] EXCEPT !.pc = "timer_start"])
    /\ UNCHANGED <<TIMER_PTR, debug_assertions, avail, running, counter,
                   cc1, published,
                   hist, stdVars, arVars>>

\* timer.timer_start(0xFFFF_FFFF): cleared and started, free-running.
init_timer_start(p) ==
    /\ cx[p].pc = "timer_start"
    /\ running' = [running EXCEPT ![cx[p].t0] = TRUE]
    /\ counter' = [counter EXCEPT ![cx[p].t0] = 0]
    /\ Put(p, [cx[p] EXCEPT !.pc = "swap"])
    /\ UNCHANGED <<TIMER_PTR, debug_assertions, avail, periodic, cc1,
                   published,
                   hist, stdVars, arVars>>

\* let old_ptr = TIMER_PTR.swap(t0, SeqCst)
init_swap(p) ==
    /\ cx[p].pc = "swap"
    /\ TIMER_PTR' = cx[p].t0
    /\ published' = TRUE
    /\ Put(p, [cx[p] EXCEPT !.pc = "assert", !.old_ptr = TIMER_PTR])
    /\ UNCHANGED <<debug_assertions, avail, periodic, running, counter, cc1,
                   hist, stdVars, arVars>>

\* debug_assert!(old_ptr == null_mut()): checked only in a debug build.
init_assert(p) ==
    /\ cx[p].pc = "assert"
    /\ Put(p, [Idle EXCEPT !.op = "init", !.pub = cx[p].pub, !.pc =
                 IF debug_assertions /\ cx[p].old_ptr # null_mut
                 THEN "panicked" ELSE "idle"])
    /\ UNCHANGED <<TIMER_PTR, debug_assertions, avail, periodic, running,
                   counter, cc1, published,
                   hist, stdVars, arVars>>

\* ------------------------------------- impl RollingTimer: get_ticks & co

\* `v as i32`: the two's complement reading of a tick.
as_i32(v) == IF 2 * v >= HwTickMod THEN v - HwTickMod ELSE v

\* A delay_ms that ends with its first delay_us.
delay_us_return_once(c) == [c EXCEPT !.pc = "idle", !.ms = 0]

\* delay_us has returned: the call is over, or delay_ms runs its next round.
delay_us_return(c) ==
    IF c.op = "delay_ms" /\ c.ms > 1
    THEN [c EXCEPT !.pc = "load", !.site = "delay_start", !.ms = c.ms - 1]
    ELSE [c EXCEPT !.pc = "idle", !.ms = 0]

\* A loop that polls once and gives up.
KeepWaiting_once(e, us) == FALSE

\* A loop that gives up one tick short of the target.
KeepWaiting_short(e, us) == e + 1 < us

\* while self.ticks_since(start) < us {}: the loop goes round once more.
KeepWaiting(e, us) == e < us

\* get_ticks() has produced v: what its caller does with it.
\*   delay_start:  let start = self.get_ticks();
\*   delay_poll:   while self.ticks_since(start) < us {}
AfterTicks(c, v) ==
    CASE c.site = "get_ticks" ->
            [c EXCEPT !.pc = "idle", !.ret = v, !.t0 = null_mut]
      [] c.site = "now" ->
            [c EXCEPT !.pc = "idle", !.ret = as_i32(v), !.t0 = null_mut]
      [] c.site = "delay_start" ->
            [c EXCEPT !.pc = "load", !.site = "delay_poll", !.ret = v,
                      !.start = v, !.us = IF c.op = "delay_ms" THEN UsPerMs
                                          ELSE c.us,
                      !.polled = FALSE, !.elapsed = 0, !.polls = 0]
      [] c.site = "delay_poll" ->
            LET e == ticks_since(HwTickMod, v, c.start)
                d == [c EXCEPT !.ret = v, !.elapsed = e, !.polled = TRUE,
                               !.polls = IF @ < MaxPolls THEN @ + 1 ELSE @]
            IN  IF KeepWaiting(e, c.us) THEN [d EXCEPT !.pc = "load"]
                ELSE delay_us_return(d)

\* A load that takes TIMER0 for the binding when there is none.
LoadPtr_unchecked(c) ==
    [c EXCEPT !.pc = "capture", !.cap = None,
              !.t0 = IF TIMER_PTR # null_mut THEN TIMER_PTR ELSE 1]

\* if let Some(t0) = TIMER_PTR.load(SeqCst).as_ref() { ... } else { 0 }
LoadPtr(c) ==
    IF TIMER_PTR # null_mut
    THEN [c EXCEPT !.pc = "capture", !.t0 = TIMER_PTR, !.cap = None,
                   !.floor = hist.last[TIMER_PTR],
                   !.during = IF hist.on THEN {counter[TIMER_PTR]} ELSE {},
                   !.spoiled = FALSE]
    ELSE AfterTicks([c EXCEPT !.t0 = null_mut, !.how = "null"], 0)

\* A call of get_ticks() from site s begins: the pointer is loaded.
Enter(p, c, s) ==
    /\ cx[p].pc = "idle"
    /\ Put(p, LoadPtr([c EXCEPT !.site = s, !.pub = published]))
    /\ UNCHANGED <<TIMER_PTR, debug_assertions, avail, periodic, running,
                   counter, cc1, published,
                   hist, stdVars, arVars>>

get_ticks(p) == Enter(p, [Idle EXCEPT !.op = "get_ticks"], "get_ticks")

\* Monotonic::now: self.get_ticks() as i32
now(p) == Enter(p, [Idle EXCEPT !.op = "now"], "now")

\* The pointer load of a get_ticks() made inside a delay.
get_ticks_load(p) ==
    /\ cx[p].pc = "load"
    /\ Put(p, LoadPtr(cx[p]))
    /\ UNCHANGED <<TIMER_PTR, debug_assertions, avail, periodic, running,
                   counter, cc1, published,
                   hist, stdVars, arVars>>

\* t0.tasks_capture[1].write(1): the live count is latched into cc[1].
get_ticks_capture(p) ==
    /\ cx[p].pc = "capture"
    /\ cc1' = [cc1 EXCEPT ![cx[p].t0] = counter[cx[p].t0]]
    /\ cx' = [q \in Procs |->
                IF q = p
                THEN [cx[p] EXCEPT !.pc = "read", !.cap = counter[cx[p].t0],
                                   !.raced = FALSE,
                                   !.waited = IF cx[p].site = "delay_start"
                                                 /\ @ = None
                                              THEN 0 ELSE @]
                ELSE IF cx[q].pc = "read" /\ cx[q].t0 = cx[p].t0
                THEN [cx[q] EXCEPT !.raced = TRUE]
                ELSE cx[q]]
    /\ UNCHANGED <<TIMER_PTR, debug_assertions, avail, periodic, running,
                   counter, published,
                   hist, stdVars, arVars>>

\* A read that is one count ahead of what the capture latched.
CaptureRead_ahead(t) == (cc1[t] + 1) % HwTickMod

\* A read that yields the constant 0.
CaptureRead_zero(t) == 0

\* The register get_ticks reads back.
CaptureRead(t) == cc1[t]

\* t0.cc[1].read().bits()
get_ticks_read(p) ==
    /\ cx[p].pc = "read"
    /\ LET v == CaptureRead(cx[p].t0)
           h == IF v = cx[p].cap THEN "own"
                ELSE IF cx[p].raced THEN "raced" ELSE "lost"
       IN  /\ Put(p, AfterTicks([cx[p] EXCEPT
                                   !.how = h, !.cap = None, !.raced = FALSE,
                                   !.floor = IF cx[p].spoiled THEN None
                                             ELSE @,
                                   !.during = @ \cap {v},
                                   !.spoiled = FALSE], v))
           /\ hist' = IF hist.on /\ ~cx[p].spoiled
                       THEN [hist EXCEPT !.last[cx[p].t0] =
                                IF @ = None \/ v > @ THEN v ELSE @]
                       ELSE hist
    /\ UNCHANGED <<TIMER_PTR, debug_assertions, avail, periodic, running,
                   counter, cc1, published,
                   stdVars, arVars>>

\* TIMER_PTR.load(SeqCst) != null_mut()
IsBound(ptr) == ptr # null_mut

\* An is_initialized that takes the pointer out instead of loading it.
is_initialized_taking(p) ==
    /\ cx[p].pc = "idle"
    /\ Put(p, [Idle EXCEPT !.op = "is_initialized", !.pub = published,
                           !.flag = IsBound(TIMER_PTR)])
    /\ TIMER_PTR' = null_mut
    /\ UNCHANGED <<debug_assertions, avail, periodic, running,
                   counter, cc1, published,
                   hist, stdVars, arVars>>

\* is_initialized(): the pointer is loaded and compared.
is_initialized(p) ==
    /\ cx[p].pc = "idle"
    /\ Put(p, [Idle EXCEPT !.op = "is_initialized", !.pub = published,
                           !.flag = IsBound(TIMER_PTR)])
    /\ UNCHANGED <<TIMER_PTR, debug_assertions, avail, periodic, running,
                   counter, cc1, published,
                   hist, stdVars, arVars>>

\* ------------------------------------------------------- the delays

\* delay_us(us): let start = self.get_ticks(); then the polling loop.
delay_us(p) ==
    \E n \in DelayArgs :
        Enter(p, [Idle EXCEPT !.op = "delay_us", !.us = n, !.arg = n],
              "delay_start")

\* delay_ms(ms): for _ in 0..ms { self.delay_us(1000) }
delay_ms(p) ==
    \E n \in 0..MaxMs :
        IF n = 0
        THEN /\ cx[p].pc = "idle"
             /\ Put(p, [Idle EXCEPT !.op = "delay_ms"])
             /\ UNCHANGED <<TIMER_PTR, debug_assertions, avail, periodic,
                            running, counter, cc1, published,
                   hist, stdVars, arVars>>
        ELSE Enter(p, [Idle EXCEPT !.op = "delay_ms", !.ms = n, !.arg = n],
                   "delay_start")

\* ------------------------------------------------- impl Monotonic

\* reset: the pointer is loaded; a bound timer is then cleared.
reset(p) ==
    /\ cx[p].pc = "idle"
    /\ Put(p, IF TIMER_PTR # null_mut
              THEN [Idle EXCEPT !.op = "reset", !.pc = "tasks_clear",
                                !.t0 = TIMER_PTR]
              ELSE [Idle EXCEPT !.op = "reset"])
    /\ UNCHANGED <<TIMER_PTR, debug_assertions, avail, periodic, running,
                   counter, cc1, published,
                   hist, stdVars, arVars>>

\* t0.tasks_clear.write(1)
reset_tasks_clear(p) ==
    /\ cx[p].pc = "tasks_clear"
    /\ counter' = [counter EXCEPT ![cx[p].t0] = 0]
    /\ cx' = [q \in Procs |->
                IF q = p THEN [Idle EXCEPT !.op = "reset"]
                ELSE IF InCall(cx[q]) /\ cx[q].t0 = cx[p].t0
                THEN Moved(cx[q], 0, TRUE)
                ELSE cx[q]]
    /\ hist' = Forget({cx[p].t0})
    /\ UNCHANGED <<TIMER_PTR, debug_assertions, avail, periodic, running,
                   cc1, published,
                   stdVars, arVars>>

\* A set_compare that does nothing and returns.
set_compare_noop(p) ==
    /\ cx[p].pc = "idle"
    /\ Put(p, [Idle EXCEPT !.op = "set_compare"])
    /\ UNCHANGED <<TIMER_PTR, debug_assertions, avail, periodic, running,
                   counter, cc1, published,
                   hist, stdVars, arVars>>

\* set_compare: todo!()
set_compare(p) ==
    /\ cx[p].pc = "idle"
    /\ Put(p, [Idle EXCEPT !.op = "set_compare", !.pc = "panicked"])
    /\ UNCHANGED <<TIMER_PTR, debug_assertions, avail, periodic, running,
                   counter, cc1, published,
                   hist, stdVars, arVars>>

\* clear_compare_flag: todo!()
clear_compare_flag(p) ==
    /\ cx[p].pc = "idle"
    /\ Put(p, [Idle EXCEPT !.op = "clear_compare_flag", !.pc = "panicked"])
    /\ UNCHANGED <<TIMER_PTR, debug_assertions, avail, periodic, running,
                   counter, cc1, published,
                   hist, stdVars, arVars>>

\* ------------------------------------- the software adapter, Timer<TPS>

\* The nanoseconds of one second.
NanosPerSec == 1000000000

\* const NANOS_PER_TICK: u128 = 1_000_000_000 / (TPS as u128)
NANOS_PER_TICK(tps) == NanosPerSec \div tps

\* Instant::checked_duration_since: None when `earlier` is later than self.
checked_duration_since(self, earlier) ==
    IF self >= earlier THEN self - earlier ELSE None

\* .unwrap_or_else(|| Duration::from_secs(0))
unwrap_or_else(d) == IF d = None THEN 0 ELSE d

\* A conversion that stops at the largest tick instead of wrapping.
mask_saturating(div) == IF div >= StdTickMod THEN StdTickMod - 1 ELSE div

\* (div & 0xFFFF_FFFF) as u32
mask(div) == div % StdTickMod

\* The amounts by which the clock is advanced between two steps.
Advances == {1, 3030302, NanosPerSec}

\* A thread between calls.
StdIdle ==
    [op |-> "none", pc |-> "idle", tps |-> 0, instant |-> 0, seen |-> None,
     ret |-> 0, flag |-> FALSE, has_start |-> FALSE, start_gh |-> 0,
     start_at |-> 0, stop_gh |-> 0]

StdInit ==
    /\ T0 = [state |-> "incomplete", at |-> 0, inits |-> 0]
    /\ clock = 0
    /\ advances = 0
    /\ sx = [p \in Threads |-> StdIdle]

Set(p, r) == sx' = [sx EXCEPT ![p] = r]

\* Real time passes.
Advance ==
    /\ advances < MaxAdvances
    /\ \E d \in Advances :
         /\ clock <= MaxClock - d
         /\ clock' = clock + d
    /\ advances' = advances + 1
    /\ UNCHANGED <<T0, sx, hwVars, arVars>>

\* Timer::new() for a rate TPS: a value of a zero-sized type.
std_new(p) ==
    /\ sx[p].pc = "idle"
    /\ \E r \in Rates : Set(p, [StdIdle EXCEPT !.op = "new", !.tps = r])
    /\ UNCHANGED <<T0, clock, advances, hwVars, arVars>>

\* is_initialized: true
std_is_initialized(p) ==
    /\ sx[p].pc = "idle"
    /\ sx[p].tps # 0
    /\ Set(p, [StdIdle EXCEPT !.tps = sx[p].tps, !.op = "is_initialized",
                              !.flag = TRUE])
    /\ UNCHANGED <<T0, clock, advances, hwVars, arVars>>

\* get_ticks from the dereference of T0 on, with t0 the value of *T0:
\* the duration, its nanoseconds, the division and the mask.  The call
\* `let start_gh = timer.get_ticks()` keeps its result as start_gh; one
\* made by millis_since(start_gh) goes on to the conversion.
Finish(c, t0) ==
    LET ticks == unwrap_or_else(checked_duration_since(c.instant, t0))
        tnanos == ticks
        d == [c EXCEPT !.seen = t0]
    IN  IF NANOS_PER_TICK(c.tps) = 0
        THEN [d EXCEPT !.pc = "panicked"]
        ELSE LET div == tnanos \div NANOS_PER_TICK(c.tps)
                 v == mask(div)
             IN  CASE c.op = "get_ticks" -> [d EXCEPT !.pc = "idle", !.ret = v]
                   [] c.op = "start_gh" ->
                          [d EXCEPT !.pc = "idle", !.ret = v,
                                    !.has_start = TRUE, !.start_gh = v,
                                    !.start_at = c.instant]
                   [] c.op = "millis_since" ->
                          [d EXCEPT !.pc = "idle", !.ret = v,
                                !.stop_gh = millis_since(StdTickMod, v,
                                                         c.start_gh, c.tps)]

\* get_ticks begins: Instant::now()
std_get_ticks(p) ==
    /\ sx[p].pc = "idle"
    /\ sx[p].tps # 0
    /\ Set(p, [StdIdle EXCEPT !.tps = sx[p].tps, !.op = "get_ticks",
                              !.pc = "deref", !.instant = clock])
    /\ UNCHANGED <<T0, clock, advances, hwVars, arVars>>

\* let start_gh = timer.get_ticks(), as the tests begin.
std_start_gh(p) ==
    /\ sx[p].pc = "idle"
    /\ sx[p].tps # 0
    /\ Set(p, [StdIdle EXCEPT !.tps = sx[p].tps, !.op = "start_gh",
                              !.pc = "deref", !.instant = clock])
    /\ UNCHANGED <<T0, clock, advances, hwVars, arVars>>

\* millis_since(start_gh) begins: self.ticks_since(rhs) calls get_ticks.
std_millis_since(p) ==
    /\ sx[p].pc = "idle"
    /\ sx[p].has_start
    /\ Set(p, [sx[p] EXCEPT !.op = "millis_since", !.pc = "deref",
                            !.instant = clock, !.seen = None])
    /\ UNCHANGED <<T0, clock, advances, hwVars, arVars>>

\* A cell that runs its closure at every dereference.
MustInit_always(cell) == TRUE

\* Whether a dereference of the Lazy finds it still to be initialised.
MustInit(cell) == cell.state = "incomplete"

\* *T0, the Lazy's force: the first dereference runs the closure, one that
\* finds the closure running waits for it, a later one reads the value.
std_deref(p) ==
    /\ sx[p].pc = "deref"
    /\ T0.state # "running"
    /\ IF MustInit(T0)
       THEN /\ T0' = [T0 EXCEPT !.state = "running"]
            /\ Set(p, [sx[p] EXCEPT !.pc = "closure"])
       ELSE /\ Set(p, Finish(sx[p], T0.at))
            /\ UNCHANGED T0
    /\ UNCHANGED <<clock, advances, hwVars, arVars>>

\* Lazy::new(|| Instant::now()): the closure, run by the first dereference.
std_closure(p) ==
    /\ sx[p].pc = "closure"
    /\ T0' = [state |-> "complete", at |-> clock, inits |-> T0.inits + 1]
    /\ Set(p, Finish(sx[p], clock))
    /\ UNCHANGED <<clock, advances, hwVars, arVars>>

\* ------------------------------------------ the arithmetic, on its own

\* A second scaled tick width, small enough to try every pair of ticks.
ArithMod == 16
\* The tick widths tried.
Widths == {HwTickMod, ArithMod, StdTickMod}
\* The ticks tried at a width m: all of a small width, the ends and the
\* middle of a large one.
TicksOf(m) ==
    IF m <= ArithMod THEN 0..(m - 1)
    ELSE {0, 1, 3, 1500, 1500000, m - 5, m - 1}
\* The rates tried.
ArithRates == {1, 3, 330, 1000, 1000000, 1000000000}

ArIdle == [pc |-> "input", m |-> 1, start |-> 0, ticks |-> 0, rate |-> 1,
           elapsed |-> 0, millis |-> 0]

ArInit ==
    \E m \in Widths : \E s \in TicksOf(m) : \E n \in TicksOf(m) :
    \E r \in ArithRates :
        ar = [ArIdle EXCEPT !.m = m, !.start = s, !.ticks = n, !.rate = r]

\* timer.ticks_since(start) while get_ticks() reads ar.ticks
ar_ticks_since ==
    /\ ar.pc = "input"
    /\ ar' = [ar EXCEPT !.pc = "ticks_since",
                        !.elapsed = ticks_since(ar.m, ar.ticks, ar.start)]
    /\ UNCHANGED <<hwVars, stdVars>>

\* timer.millis_since(start) while get_ticks() reads ar.ticks
ar_millis_since ==
    /\ ar.pc = "ticks_since"
    /\ ar' = [ar EXCEPT !.pc = "millis_since",
                        !.millis = millis_since(ar.m, ar.ticks, ar.start,
                                                ar.rate)]
    /\ UNCHANGED <<hwVars, stdVars>>

\* ------------------------------------------------------ specifications

vars == <<hwVars, hist, stdVars, arVars>>

\* A subsystem a specification leaves alone.
HwParked == HwInit /\ debug_assertions = TRUE
StdParked == StdInit
ArParked == ar = ArIdle

\* The hardware adapter: two contexts, every operation but the delays.
Init == HwInit /\ StdParked /\ ArParked

Next ==
    \/ Tick
    \/ \E p \in Procs :
         \/ init(p)
         \/ init_set_periodic(p)
         \/ init_timer_start(p)
         \/ init_swap(p)
         \/ init_assert(p)
         \/ get_ticks(p)
         \/ now(p)
         \/ get_ticks_capture(p)
         \/ get_ticks_read(p)
         \/ is_initialized(p)
         \/ reset(p)
         \/ reset_tasks_clear(p)
         \/ set_compare(p)
         \/ clear_compare_flag(p)

Spec == Init /\ [][Next]_vars

\* The hardware adapter's delays: context 1 initialises and waits.
NextDelay ==
    \/ Tick
    \/ init(1)
    \/ init_set_periodic(1)
    \/ init_timer_start(1)
    \/ init_swap(1)
    \/ init_assert(1)
    \/ delay_us(1)
    \/ delay_ms(1)
    \/ get_ticks_load(1)
    \/ get_ticks_capture(1)
    \/ get_ticks_read(1)

SpecDelay == Init /\ [][NextDelay]_vars

\* The hardware adapter's get_ticks in two contexts, the ticks it returns
\* followed: context 1 initialises, once, and context 2 (an interrupt)
\* also resets.
InitRace == HwStart(TRUE) /\ StdParked /\ ArParked

NextRace ==
    \/ Tick
    \/ avail = Timers /\ init(1)
    \/ init_set_periodic(1)
    \/ init_timer_start(1)
    \/ init_swap(1)
    \/ init_assert(1)
    \/ reset(2)
    \/ reset_tasks_clear(2)
    \/ \E p \in Procs :
         \/ get_ticks(p)
         \/ get_ticks_capture(p)
         \/ get_ticks_read(p)

SpecRace == InitRace /\ [][NextRace]_vars

\* The delays under fair scheduling: the started timer keeps counting, and
\* the context keeps executing the steps of the call it is in.
SpecDelayFair ==
    /\ SpecDelay
    /\ WF_vars(Tick)
    /\ WF_vars(get_ticks_load(1))
    /\ WF_vars(get_ticks_capture(1))
    /\ WF_vars(get_ticks_read(1))

\* The software adapter: thread 1 also converts, as the tests do.
InitStd == HwParked /\ StdInit /\ ArParked

NextStd ==
    \/ Advance
    \/ std_start_gh(1)
    \/ std_millis_since(1)
    \/ \E p \in Threads :
         \/ std_new(p)
         \/ std_is_initialized(p)
         \/ std_get_ticks(p)
         \/ std_deref(p)
         \/ std_closure(p)

SpecStd == InitStd /\ [][NextStd]_vars

\* Either adapter, as one program is built with one of them: the hardware
\* adapter (a debug build) with context 1 making every call that reads the
\* timer or waits on it, or the software adapter.
HwQuiet == cx = [p \in Procs |-> Idle] /\ avail = Timers
StdQuiet ==
    /\ T0.state = "incomplete"
    /\ clock = 0
    /\ \A p \in Threads : sx[p].op = "none"

NextFrame ==
    \/ StdQuiet /\ NextDelay
    \/ StdQuiet /\ get_ticks(1)
    \/ StdQuiet /\ now(1)
    \/ StdQuiet /\ is_initialized(1)
    \/ HwQuiet /\ NextStd

InitFrame == HwParked /\ StdParked /\ ArParked

SpecFrame == InitFrame /\ [][NextFrame]_vars

\* The arithmetic.
InitArith == HwParked /\ StdParked /\ ArInit

NextArith == ar_ticks_since \/ ar_millis_since

SpecArith == InitArith /\ [][NextArith]_vars

\* -------------------------------------------------------------- claims

\* C1 (SpecArith): at every tick width and for every pair of ticks start
\* and now below it, ticks_since(start) at a read of now is
\* (now - start) mod 2^W, a tick of that width.
C1_TicksSinceModular ==
    ar.pc # "input" =>
        /\ ar.elapsed = (ar.ticks - ar.start) % ar.m
        /\ ar.elapsed \in 0..(ar.m - 1)

\* C1's case: the counter rolled over once between the reads, from 5 below
\* the width to 3, and the elapsed count is 8.
C1_Rollover ==
    /\ ar.pc = "ticks_since"
    /\ ar.m = StdTickMod
    /\ ar.start = ar.m - 5
    /\ ar.ticks = 3
    /\ ar.elapsed = 8

\* C2 (SpecArith): millis_since is floor(T * 1000 / R) for the elapsed
\* ticks T and the rate R: it is the one integer q with
\* 0 <= T * 1000 - q * R < R.
C2_MillisFloor ==
    ar.pc = "millis_since" =>
        /\ ar.millis >= 0
        /\ ar.elapsed * 1000 - ar.millis * ar.rate \in 0..(ar.rate - 1)

\* C2's case: 1_500_000 ticks at 1_000_000 ticks a second are 1500 ms.
C2_Example ==
    /\ ar.pc = "millis_since"
    /\ ar.rate = 1000000
    /\ ar.elapsed = 1500000
    /\ ar.millis = 1500

\* C3 (Spec): as long as no init has published a binding, every get_ticks()
\* that has returned has returned 0 and every is_initialized() false.
C3_Uninitialized ==
    ~published =>
        \A p \in Procs :
            cx[p].pc = "idle" =>
                /\ cx[p].op = "get_ticks" => cx[p].ret = 0
                /\ cx[p].op = "is_initialized" => cx[p].flag = FALSE

\* C3's case: an init has started a timer, which counts, and has not yet
\* published it; a get_ticks() has returned meanwhile.
C3_ReadBeforePublication ==
    /\ ~published
    /\ \E p, q \in Procs :
         /\ cx[p].op = "get_ticks" /\ cx[p].pc = "idle"
         /\ cx[q].pc = "swap" /\ counter[cx[q].t0] > 0

\* C4 (Spec): once a binding is published TIMER_PTR is never null again,
\* and a call begun after the publication finds it: is_initialized()
\* returns true, and get_ticks() triggers a capture and returns a latched
\* count of the hardware (its own capture's, or a later capture's that
\* another context triggered before the read) instead of the constant 0.
C4_InitializedTerminal ==
    /\ published => TIMER_PTR # null_mut
    /\ \A p \in Procs :
         cx[p].pub /\ cx[p].pc = "idle" =>
            /\ cx[p].op = "is_initialized" => cx[p].flag = TRUE
            /\ cx[p].op = "get_ticks" => cx[p].how \in {"own", "raced"}

\* C4's case: after the publication and a reset, one context has read a
\* live count other than 0 and the other has seen is_initialized() true.
C4_LiveCount ==
    \E p, q \in Procs :
        /\ cx[p].pub /\ cx[p].op = "get_ticks" /\ cx[p].pc = "idle"
        /\ cx[p].ret > 0 /\ cx[p].how = "own"
        /\ cx[q].pub /\ cx[q].op = "is_initialized" /\ cx[q].flag

\* C5 (Spec): the binding is written once: TIMER_PTR never changes from one
\* timer to another.
C5_WrittenOnce ==
    [][TIMER_PTR # null_mut => TIMER_PTR' = TIMER_PTR]_vars

\* C6 (Spec): an init called while a binding is published never returns
\* normally.
C6_DoubleInitFatal ==
    \A p \in Procs :
        cx[p].op = "init" /\ cx[p].pc = "idle" => ~cx[p].pub

\* C7 (SpecStd): the closure of T0 runs at most once, and every get_ticks()
\* that has dereferenced T0, of whatever thread and rate, has computed
\* against the instant T0 holds now: the instant never changes.
C7_OneReferenceInstant ==
    /\ T0.inits <= 1
    /\ \A p \in Threads :
         sx[p].seen # None => T0.state = "complete" /\ sx[p].seen = T0.at

\* C7's case: two threads with timers of different rates have both read
\* the clock before T0 was initialised, one of them ran the closure, and
\* both computed against its instant.
C7_RacedFirstCalls ==
    /\ sx[1].seen # None /\ sx[2].seen # None
    /\ sx[1].tps # sx[2].tps
    /\ sx[1].instant < T0.at /\ sx[2].instant < T0.at

\* C8 (SpecStd): a get_ticks() that read the clock e nanoseconds after the
\* reference instant returns floor(e / floor(1_000_000_000 / R)) mod 2^32,
\* a tick below 2^32, whenever floor(1_000_000_000 / R) is at least 1.
C8_TicksOfElapsed ==
    \A p \in Threads :
        LET c == sx[p]
            npt == NanosPerSec \div c.tps
            e == c.instant - c.seen
            q == e \div npt
        IN  /\ c.pc = "panicked" => npt = 0
            /\ c.pc = "idle" /\ c.op \in {"get_ticks", "start_gh"}
                   /\ c.instant >= c.seen =>
                /\ q * npt <= e /\ e < q * npt + npt
                /\ c.ret \in 0..(StdTickMod - 1)
                /\ (q - c.ret) % StdTickMod = 0

\* C8's case: more than 2^32 ticks after the reference instant the tick
\* has wrapped.
C8_Wrapped ==
    \E p \in Threads :
        /\ sx[p].pc = "idle" /\ sx[p].op = "get_ticks"
        /\ sx[p].tps = NanosPerSec
        /\ sx[p].instant - sx[p].seen >= StdTickMod
        /\ sx[p].ret = sx[p].instant - sx[p].seen - StdTickMod

\* C9 (SpecStd): at the rates 1_000, 1_000_000 and 330, a millis_since
\* that reads the clock one second after the read of its start, the start
\* read at or after the reference instant, returns 998..1002.
C9_OneSecond ==
    \A p \in Threads :
        LET c == sx[p]
        IN  /\ c.pc = "idle" /\ c.op = "millis_since"
            /\ c.tps \in {1000, 1000000, 330}
            /\ c.seen # None /\ c.start_at >= c.seen
            /\ c.instant - c.start_at = NanosPerSec
            => c.stop_gh \in 998..1002

\* C10 (SpecStd): no call of the software adapter aborts, and
\* is_initialized() returns true.
C10_NeverFails ==
    \A p \in Threads :
        /\ sx[p].pc # "panicked"
        /\ sx[p].pc = "idle" /\ sx[p].op = "is_initialized" => sx[p].flag

\* Calls that read a timer or wait on it.
ReadOps == {"get_ticks", "now", "is_initialized", "delay_us", "delay_ms"}

\* C11 (SpecFrame): no step of a get_ticks(), now(), is_initialized(),
\* delay_us() or delay_ms() of the hardware adapter changes TIMER_PTR, and
\* only the swap of an init does; no step of the software adapter changes
\* the reference instant once T0 is initialised.
C11_ReadsLeaveBinding ==
    [][/\ \A p \in Procs :
            cx'[p] # cx[p] /\ cx'[p].op \in ReadOps =>
                TIMER_PTR' = TIMER_PTR
       /\ TIMER_PTR' # TIMER_PTR =>
            \E p \in Procs :
                cx[p].op = "init" /\ cx[p].pc = "swap" /\ cx'[p] # cx[p]
       /\ T0.state = "complete" => T0' = T0]_vars

\* C11's case: with TIMER0 bound, context 1 has run a whole delay_ms(MaxMs)
\* and TIMER0 is still bound.
C11_WaitedOnBinding ==
    /\ TIMER_PTR = 1
    /\ cx[1].op = "delay_ms" /\ cx[1].pc = "idle"
    /\ cx[1].arg = MaxMs /\ cx[1].pub

\* The scheduler hooks the adapter does not implement.
CompareOps == {"set_compare", "clear_compare_flag"}

\* C12 (Spec): every call of set_compare and of clear_compare_flag, with
\* or without a published binding, ends in a panic at the call, and its
\* step changes neither TIMER_PTR nor a timer's counter.
C12_CompareOpsPanic ==
    [][\A p \in Procs :
         cx'[p] # cx[p] /\ cx'[p].op \in CompareOps =>
            /\ cx'[p].pc = "panicked"
            /\ TIMER_PTR' = TIMER_PTR
            /\ counter' = counter]_vars

\* C12's case: one context has panicked in set_compare and the other in
\* clear_compare_flag, the later of them with a timer bound and counting.
C12_BothPanicked ==
    /\ cx[1].op = "set_compare" /\ cx[1].pc = "panicked"
    /\ cx[2].op = "clear_compare_flag" /\ cx[2].pc = "panicked"
    /\ TIMER_PTR # null_mut /\ counter[TIMER_PTR] > 0

\* C13 (SpecDelay): a delay_us(us) begun with a timer bound returns only
\* at a poll, one whose ticks_since(start) is at least us; if the counter
\* has made fewer ticks than its width since the start was captured, it has
\* made at least us; and delay_us(0) returns at its first poll.
C13_NoEarlyReturn ==
    \A p \in Procs :
        cx[p].op = "delay_us" /\ cx[p].pc = "idle" /\ cx[p].pub =>
            /\ cx[p].polls >= 1
            /\ cx[p].elapsed >= cx[p].arg
            /\ cx[p].waited # None
            /\ cx[p].waited < HwTickMod => cx[p].waited >= cx[p].arg
            /\ cx[p].arg = 0 => cx[p].polls = 1

\* C13's case: a delay_us of the largest argument has returned after more
\* than one poll, exactly that many ticks after its start, the counter
\* having rolled over meanwhile.
C13_LongestWait ==
    /\ cx[1].op = "delay_us" /\ cx[1].pc = "idle" /\ cx[1].pub
    /\ cx[1].arg = HwTickMod - 1
    /\ cx[1].waited = cx[1].arg
    /\ cx[1].polls = MaxPolls
    /\ cx[1].ret < cx[1].start

\* C14 (SpecDelayFair): with the counter and the polling loop scheduled
\* fairly, a delay_us(us) in progress on a bound timer eventually returns,
\* also when us is the largest tick, where one count in a whole round of
\* the counter ends the wait.
C14_DelayReturns ==
    (cx[1].op = "delay_us" /\ cx[1].pc # "idle" /\ cx[1].pub
        /\ cx[1].arg = HwTickMod - 1)
    ~> (cx[1].pc = "idle")

\* C15 (SpecDelay): inside a delay_ms(ms) no ticks_since is measured
\* against a target above UsPerMs (1000), and a delay_ms(ms) begun with a
\* timer bound returns only when the counter has made at least UsPerMs * ms
\* ticks since the call, also when that product is no tick of the counter's
\* width.
C15_MillisByRounds ==
    \A p \in Procs :
        cx[p].op = "delay_ms" =>
            /\ cx[p].us <= UsPerMs
            /\ cx[p].ms <= cx[p].arg
            /\ cx[p].pc = "idle" /\ cx[p].pub /\ cx[p].arg >= 1 =>
                /\ cx[p].waited # None
                /\ cx[p].waited >= UsPerMs * cx[p].arg

\* C15's case: a delay_ms whose ms * UsPerMs is not below the counter's
\* width has returned after exactly that many ticks.
C15_LongerThanWidth ==
    /\ cx[1].op = "delay_ms" /\ cx[1].pc = "idle" /\ cx[1].pub
    /\ UsPerMs * cx[1].arg >= HwTickMod
    /\ cx[1].waited = UsPerMs * cx[1].arg

\* The timer is set periodic and started.
Configured(t) == periodic[t] /\ running[t]

\* C16 (Spec): in every interleaving the timer TIMER_PTR binds is
\* configured (periodic and started), and so is the timer of every
\* get_ticks() that has loaded a binding and is at its capture or its read;
\* a reader that loaded null captures nothing.
C16_PublishedConfigured ==
    /\ TIMER_PTR # null_mut => Configured(TIMER_PTR)
    /\ \A p \in Procs :
         /\ cx[p].pc \in {"capture", "read"} =>
                cx[p].t0 # null_mut /\ Configured(cx[p].t0)
         /\ cx[p].pc = "idle" /\ cx[p].how = "null" =>
                cx[p].ret = 0 /\ cx[p].cap = None

\* C16's case: a get_ticks() is about to capture from the bound timer
\* while an init in the other context holds a timer it has set periodic
\* and not yet started.
C16_ReaderDuringInit ==
    \E p, q \in Procs :
        /\ cx[p].op = "get_ticks" /\ cx[p].pc = "capture"
        /\ cx[q].op = "init" /\ cx[q].pc = "timer_start"
        /\ ~running[cx[q].t0]

\* C17 (SpecStd): a get_ticks() that read the clock at an instant earlier
\* than the reference instant it then found in T0 returns, and returns 0.
C17_EarlyInstantIsZero ==
    \A p \in Threads :
        /\ sx[p].op \in {"get_ticks", "start_gh"}
        /\ sx[p].seen # None /\ sx[p].instant < sx[p].seen
        => sx[p].pc = "idle" /\ sx[p].ret = 0

\* C18 (SpecRace): in every interleaving of the captures and reads of two
\* contexts, a get_ticks() that loaded a timer returns a count that timer's
\* counter held between the call's load and its return; and it returns no
\* less than any get_ticks() of the same timer that had returned before it
\* began, if the counter neither wrapped nor was cleared from the start of
\* that call to the return of this one.
C18_ReturnsHeldCount ==
    \A p \in Procs :
        cx[p].op = "get_ticks" /\ cx[p].pc = "idle" /\ cx[p].how # "null" =>
            /\ cx[p].ret \in cx[p].during
            /\ cx[p].floor # None => cx[p].ret >= cx[p].floor

\* C18's case: the interrupt's capture came between the capture and the
\* read of context 1, whose call returned the interrupt's later count,
\* above the tick an earlier call had returned.
C18_InterleavedCapture ==
    /\ cx[1].op = "get_ticks" /\ cx[1].pc = "idle" /\ cx[1].how = "raced"
    /\ cx[1].floor # None /\ cx[1].ret > cx[1].floor
    /\ cx[2].op = "get_ticks" /\ cx[2].ret = cx[1].ret

\* C19 (SpecDelay): a delay_us or delay_ms begun with no timer bound, and
\* none bound since, reports no error; it has returned only if its argument
\* is 0; with an argument of 1 or more every get_ticks() in it has
\* produced 0 and every ticks_since(start) 0.
C19_UninitializedNeverReturns ==
    \A p \in Procs :
        cx[p].op \in {"delay_us", "delay_ms"} /\ ~cx[p].pub /\ ~published =>
            /\ cx[p].pc # "panicked"
            /\ cx[p].pc = "idle" => cx[p].arg = 0
            /\ cx[p].arg >= 1 =>
                /\ cx[p].pc = "load"
                /\ cx[p].start = 0 /\ cx[p].ret = 0 /\ cx[p].elapsed = 0

\* C19's case: a delay_ms(1) on the unbound timer has polled MaxPolls
\* times or more and is still in its first delay_us.
C19_StillPolling ==
    /\ ~published
    /\ cx[1].op = "delay_ms" /\ cx[1].arg = 1 /\ cx[1].ms = 1
    /\ cx[1].pc = "load" /\ cx[1].polls = MaxPolls

====
